---- MODULE Spec2Model ----
(***************************************************************************)
(* EuljiroWorship display clients (hall and OBS): the live transport       *)
(* (js/ws_hall.js, js/ws_obs.js), the render dispatcher (js/main_hall.js,  *)
(* js/main_obs.js) and the render surface the slide renderers write        *)
(* (js/render_hall.js, js/render_obs.js).                                  *)
(*                                                                         *)
(* The page is single-threaded: every handler below is one action, run to  *)
(* completion.  Sockets, interval timers and timeout timers live in small  *)
(* pools of slots; a slot is free again once the browser would never fire  *)
(* anything for it.  A timer handle whose timer has fired or was cleared   *)
(* is written 0: clearTimeout and clearInterval treat such an id exactly   *)
(* like null, and the code does nothing else with the handles.             *)
(***************************************************************************)
EXTENDS Integers, Sequences, FiniteSets, TLC

VARIABLES
    variant,      \* "hall" (ws_hall.js + main_hall.js) or "obs" (ws_obs.js + main_obs.js)
    started,      \* the page's main script has made its connectWebSocket call
    sockets,      \* slot -> state of the WebSocket object in it
    ws,           \* let ws: slot of the current socket, 0 while undefined
    connecting,   \* let connecting
    pingTimer,    \* let pingTimer: slot of the interval it names, 0 for null or stale
    pongTimeout,  \* let pongTimeout: slot of the timeout it names, 0 for null or stale
    intervals,    \* slot -> the setInterval of an onopen is active
    deadlines,    \* slot -> -1 not pending, else the interval that armed it (0: cleared since)
    reconnects,   \* number of pending reconnect timers (setTimeout of onclose)
    received,     \* history: every message event delivered to an onmessage, in order
    dispatched,   \* history: every argument the callback was called with, in order
    invoked,      \* history: every renderer the dispatcher invoked, in order
    thrown,       \* history: every message on which the callback threw, in order
    surface,      \* #container (class, display, content) and #cover-background
    last,         \* history: the handler that ran last, and the branch it took
    call,         \* a call of a function studied on its own: name, arguments, result
    player        \* a video slide: its <video>, its controls and the closure of renderVideo

transport == <<sockets, ws, connecting, pingTimer, pongTimeout, intervals, deadlines, reconnects>>
screen == <<received, dispatched, invoked, thrown, surface>>
vars == <<variant, started, transport, screen, last, call, player>>

----------------------------------------------------------------------------
(* Bounds of the model *)

MaxSockets == 2
MaxIntervals == 2
MaxDeadlines == 1
MaxReconnects == 2
MaxMsgs == 2
MaxLines == 4
MaxWords == 4
MaxSize == 5
MaxHideTimers == 2
MaxAwaits == 1
MaxDuration == 6

(* Timer delays of the transport, in milliseconds *)
PingInterval == 30000
PongDeadline == 5000

(* The step of the seek buttons of a video slide, in seconds *)
SeekStep == 5

Variants == {"hall", "obs"}
SocketSlots == 1..MaxSockets
IntervalSlots == 1..MaxIntervals
DeadlineSlots == 1..MaxDeadlines
HideSlots == 1..MaxHideTimers

Min(S) == CHOOSE x \in S : \A y \in S : x <= y

Range(f) == {f[x] : x \in DOMAIN f}

----------------------------------------------------------------------------
(* Text. A string the code takes apart is a sequence of its characters. *)

Whitespace == {" ", "\t", "\n", "\r"}

RECURSIVE SplitAcc(_, _, _, _)
SplitAcc(text, sep, cur, acc) ==
    IF text = <<>> THEN Append(acc, cur)
    ELSE IF Head(text) = sep THEN SplitAcc(Tail(text), sep, <<>>, Append(acc, cur))
    ELSE SplitAcc(Tail(text), sep, Append(cur, Head(text)), acc)

\* String.prototype.split(sep) for a one-character separator
split(text, sep) == SplitAcc(text, sep, <<>>, <<>>)

RECURSIVE TrimStart(_)
TrimStart(text) ==
    IF text # <<>> /\ Head(text) \in Whitespace THEN TrimStart(Tail(text)) ELSE text

RECURSIVE TrimEnd(_)
TrimEnd(text) ==
    IF text # <<>> /\ text[Len(text)] \in Whitespace
    THEN TrimEnd(SubSeq(text, 1, Len(text) - 1))
    ELSE text

\* String.prototype.trim()
trim(text) == TrimEnd(TrimStart(text))

RECURSIVE SplitWsAcc(_, _, _, _)
SplitWsAcc(text, cur, acc, inRun) ==
    IF text = <<>> THEN Append(acc, cur)
    ELSE IF Head(text) \in Whitespace
         THEN IF inRun THEN SplitWsAcc(Tail(text), cur, acc, TRUE)
              ELSE SplitWsAcc(Tail(text), <<>>, Append(acc, cur), TRUE)
         ELSE SplitWsAcc(Tail(text), Append(cur, Head(text)), acc, FALSE)

\* String.prototype.split(/\s+/)
splitWs(text) == SplitWsAcc(text, <<>>, <<>>, FALSE)

RECURSIVE join(_, _)
\* Array.prototype.join(sep)
join(parts, sep) ==
    IF parts = <<>> THEN <<>>
    ELSE IF Len(parts) = 1 THEN parts[1]
    ELSE parts[1] \o sep \o join(Tail(parts), sep)

RECURSIVE ReplaceNewlines(_)
\* String.prototype.replace(/\n/g, "<br>"): the tag is written as one element
ReplaceNewlines(text) ==
    IF text = <<>> THEN <<>>
    ELSE <<IF Head(text) = "\n" THEN "<br>" ELSE Head(text)>> \o ReplaceNewlines(Tail(text))

----------------------------------------------------------------------------
(* js/lyrics_utils_hall.js *)

\* The interlude marker and the amen token of the code are Korean words. A Hangul
\* syllable is one character of the string: "GAN", "JU", "AA" and "MEN" each
\* stand for the one syllable they romanise.
INTERLUDE == <<"(", "GAN", "JU", ")">>
AMEN == <<"AA", "MEN">>

RECURSIVE MutSegmentAccNoFinalFlush(_, _, _)
\* A segmentLyrics that forgets the lines left in the buffer at the end
MutSegmentAccNoFinalFlush(lines, buffer, segments) ==
    IF lines = <<>>
    THEN segments
    ELSE LET trimmed == trim(Head(lines))
             flushed == IF Len(buffer) # 0 THEN Append(segments, buffer) ELSE segments
         IN IF trimmed = <<>>
            THEN MutSegmentAccNoFinalFlush(Tail(lines), <<>>, flushed)
            ELSE IF trimmed = INTERLUDE
            THEN MutSegmentAccNoFinalFlush(Tail(lines), <<>>, Append(flushed, <<trimmed>>))
            ELSE LET pushed == Append(buffer, trimmed)
                 IN IF Len(pushed) = 2
                    THEN MutSegmentAccNoFinalFlush(Tail(lines), <<>>, Append(segments, pushed))
                    ELSE MutSegmentAccNoFinalFlush(Tail(lines), pushed, segments)

RECURSIVE MutSegmentAccBlankKeeps(_, _, _)
\* A segmentLyrics that skips an empty line without flushing the buffer
MutSegmentAccBlankKeeps(lines, buffer, segments) ==
    IF lines = <<>>
    THEN IF Len(buffer) # 0 THEN Append(segments, buffer) ELSE segments
    ELSE LET trimmed == trim(Head(lines))
             flushed == IF Len(buffer) # 0 THEN Append(segments, buffer) ELSE segments
         IN IF trimmed = <<>>
            THEN MutSegmentAccBlankKeeps(Tail(lines), buffer, segments)
            ELSE IF trimmed = INTERLUDE
            THEN MutSegmentAccBlankKeeps(Tail(lines), <<>>, Append(flushed, <<trimmed>>))
            ELSE LET pushed == Append(buffer, trimmed)
                 IN IF Len(pushed) = 2
                    THEN MutSegmentAccBlankKeeps(Tail(lines), <<>>, Append(segments, pushed))
                    ELSE MutSegmentAccBlankKeeps(Tail(lines), pushed, segments)

RECURSIVE SegmentAcc(_, _, _)
\* The loop of segmentLyrics over the remaining lines, and the flush after it.
SegmentAcc(lines, buffer, segments) ==
    IF lines = <<>>
    THEN IF Len(buffer) # 0 THEN Append(segments, buffer) ELSE segments
    ELSE LET trimmed == trim(Head(lines))
             flushed == IF Len(buffer) # 0 THEN Append(segments, buffer) ELSE segments
         IN IF trimmed = <<>>
            THEN SegmentAcc(Tail(lines), <<>>, flushed)
            ELSE IF trimmed = INTERLUDE
            THEN SegmentAcc(Tail(lines), <<>>, Append(flushed, <<trimmed>>))
            ELSE LET pushed == Append(buffer, trimmed)
                 IN IF Len(pushed) = 2
                    THEN SegmentAcc(Tail(lines), <<>>, Append(segments, pushed))
                    ELSE SegmentAcc(Tail(lines), pushed, segments)

segmentLyrics(lines) == SegmentAcc(lines, <<>>, <<>>)

\* Math.abs of the difference of the two halves' lengths at split index i
SplitDiff(words, i) ==
    LET a == Len(join(SubSeq(words, 1, i), <<" ">>))
        b == Len(join(SubSeq(words, i + 1, Len(words)), <<" ">>))
    IN IF a >= b THEN a - b ELSE b - a

RECURSIVE MutBestSplitLastWins(_, _, _, _)
\* A search that takes the last minimum on a tie
MutBestSplitLastWins(words, i, best, diff) ==
    IF i >= Len(words) THEN best
    ELSE LET d == SplitDiff(words, i)
         IN IF diff = -1 \/ d <= diff
            THEN MutBestSplitLastWins(words, i + 1, i, d)
            ELSE MutBestSplitLastWins(words, i + 1, best, diff)

RECURSIVE BestSplit(_, _, _, _)
\* The for loop of splitBalanced from index i on; diff = -1 stands for Infinity.
BestSplit(words, i, best, diff) ==
    IF i >= Len(words) THEN best
    ELSE LET d == SplitDiff(words, i)
         IN IF diff = -1 \/ d < diff
            THEN BestSplit(words, i + 1, i, d)
            ELSE BestSplit(words, i + 1, best, diff)

\* A splitBalanced that loses the detached amen when it balances
MutSplitBalancedLosesAmen(line) ==
    LET all == splitWs(trim(line))
        hasAmen == all[Len(all)] = AMEN
        words == IF hasAmen THEN SubSeq(all, 1, Len(all) - 1) ELSE all
    IN IF Len(words) < 2
       THEN IF hasAmen THEN <<join(words, <<" ">>), AMEN>> ELSE <<join(words, <<" ">>)>>
       ELSE LET best == BestSplit(words, 1, 1, -1)
            IN <<join(SubSeq(words, 1, best), <<" ">>),
                 join(SubSeq(words, best + 1, Len(words)), <<" ">>)>>

splitBalanced(line) ==
    LET all == splitWs(trim(line))
        hasAmen == all[Len(all)] = AMEN
        words == IF hasAmen THEN SubSeq(all, 1, Len(all) - 1) ELSE all
    IN IF Len(words) < 2
       THEN IF hasAmen THEN <<join(words, <<" ">>), AMEN>> ELSE <<join(words, <<" ">>)>>
       ELSE LET best == BestSplit(words, 1, 1, -1)
                res == <<join(SubSeq(words, 1, best), <<" ">>),
                         join(SubSeq(words, best + 1, Len(words)), <<" ">>)>>
            IN IF hasAmen THEN Append(res, AMEN) ELSE res

----------------------------------------------------------------------------
(* Messages on the wire, and JSON.parse on them *)

\* The heartbeat acknowledgment
PONG == "pong"

\* What JSON.parse makes of a message: the type of the value or "SyntaxError"
\* (the parse throws), and for an object the properties it has. The properties
\* the code reads are style (compared only) and three texts.
Parsed(type, has, style, headline, caption, choir) ==
    [type |-> type, has |-> has, style |-> style,
     headline |-> headline, caption |-> caption, caption_choir |-> choir]

NotJson == Parsed("SyntaxError", {}, "", <<>>, <<>>, <<>>)
Scalar(type) == Parsed(type, {}, "", <<>>, <<>>, <<>>)

\* The messages of the model, each with its parse.
ParseTable ==
    [raw \in {"hello", "{\"style\":", "null", "7", "\"pong\"", "[]", "{}",
              "{\"style\":\"lyrics\",\"headline\":\"A B\\nC\\n\\nD\",\"caption\":\"T\"}",
              "{\"style\":\"verse\",\"headline\":\"A\\nB\"}",
              "{\"style\":\"intro\",\"headline\":\"A\",\"caption\":\"T\"}",
              "{\"style\":\"anthem\",\"headline\":\"A\",\"caption_choir\":\"T\"}",
              "{\"style\":\"blank\"}",
              "{\"style\":\"nonexistent\",\"headline\":\"A\"}",
              "{\"style\":\"constructor\"}",
              "{\"style\":\"__proto__\"}"} |->
        CASE raw = "null" -> Scalar("null")
          [] raw = "7" -> Scalar("number")
          [] raw = "\"pong\"" -> Scalar("string")
          [] raw = "[]" -> Scalar("array")
          [] raw = "{}" -> Scalar("object")
          [] raw = "{\"style\":\"lyrics\",\"headline\":\"A B\\nC\\n\\nD\",\"caption\":\"T\"}" ->
                Parsed("object", {"style", "headline", "caption"}, "lyrics",
                       <<"A", " ", "B", "\n", "C", "\n", "\n", "D">>, <<"T">>, <<>>)
          [] raw = "{\"style\":\"verse\",\"headline\":\"A\\nB\"}" ->
                Parsed("object", {"style", "headline"}, "verse", <<"A", "\n", "B">>, <<>>, <<>>)
          [] raw = "{\"style\":\"intro\",\"headline\":\"A\",\"caption\":\"T\"}" ->
                Parsed("object", {"style", "headline", "caption"}, "intro", <<"A">>, <<"T">>, <<>>)
          [] raw = "{\"style\":\"anthem\",\"headline\":\"A\",\"caption_choir\":\"T\"}" ->
                Parsed("object", {"style", "headline", "caption_choir"}, "anthem", <<"A">>, <<>>, <<"T">>)
          [] raw = "{\"style\":\"blank\"}" ->
                Parsed("object", {"style"}, "blank", <<>>, <<>>, <<>>)
          [] raw = "{\"style\":\"nonexistent\",\"headline\":\"A\"}" ->
                Parsed("object", {"style", "headline"}, "nonexistent", <<"A">>, <<>>, <<>>)
          [] raw = "{\"style\":\"constructor\"}" ->
                Parsed("object", {"style"}, "constructor", <<>>, <<>>, <<>>)
          [] raw = "{\"style\":\"__proto__\"}" ->
                Parsed("object", {"style"}, "__proto__", <<>>, <<>>, <<>>)
          [] OTHER -> NotJson]

\* JSON.parse(raw); the bare word pong is no JSON text either.
JSONparse(raw) == IF raw \in DOMAIN ParseTable THEN ParseTable[raw] ELSE NotJson

\* Everything the server may send: the acknowledgment and the messages above.
Messages == {PONG} \cup DOMAIN ParseTable

\* The messages of the runs that study the transport under further connect
\* calls: the acknowledgment is the one message the transport itself reads.
TransportMessages == {PONG}

----------------------------------------------------------------------------
(* js/autoshrink_hall.js, js/autoshrink_obs.js: the default bounds *)

HallMaxFont == 80
HallMinFont == 16
ObsMaxFont == 48
ObsMinFont == 16

RECURSIVE ShrinkLoop(_, _, _)
\* The while loop of autoShrinkFont at size font. The layout of the element is
\* the set fits of the sizes at which its content overflows in neither axis.
ShrinkLoop(fits, font, minFont) ==
    IF font > minFont /\ font \notin fits
    THEN ShrinkLoop(fits, font - 1, minFont)
    ELSE font

RECURSIVE ShrinkSteps(_, _, _)
\* The number of times the body of the while loop runs from size font: each run
\* is one font-- and one write of el.style.fontSize.
ShrinkSteps(fits, font, minFont) ==
    IF font > minFont /\ font \notin fits
    THEN 1 + ShrinkSteps(fits, font - 1, minFont)
    ELSE 0

\* autoShrinkFont(el, maxFont, minFont): the font size it leaves on el. The two
\* engines differ in their defaults only.
autoShrinkFont(fits, maxFont, minFont) == ShrinkLoop(fits, maxFont, minFont)

\* autoShrinkFont(el, maxFont, minFont) was run on the index-th element matching
\* selector el. The size it leaves depends on the layout of the page.
Fit(el, index, maxFont, minFont) ==
    [el |-> el, index |-> index, maxFont |-> maxFont, minFont |-> minFont]

\* autoShrinkFont(el): the defaults of the variant's engine
FitDefault(el, index) ==
    IF variant = "hall"
    THEN Fit(el, index, HallMaxFont, HallMinFont)
    ELSE Fit(el, index, ObsMaxFont, ObsMinFont)

----------------------------------------------------------------------------
(* js/render_hall.js, js/render_obs.js: the render surface *)

\* innerHTML of #container: the template of a renderer and what it puts in.
Content(template, caption, choir, headline, blocks, fit) ==
    [template |-> template, caption |-> caption, choir |-> choir,
     headline |-> headline, blocks |-> blocks, fit |-> fit]

NoContent == Content("", <<>>, <<>>, <<>>, <<>>, <<>>)

\* The surface before any script has touched it: no class, no inline style.
InitialSurface == [className |-> "", display |-> "", content |-> NoContent, coverBg |-> ""]

\* The value undefined, written as the one element a template literal shows
\* for it (the text "undefined").
Undefined == <<"undefined">>

\* data.key for a text property
Get(data, key) == IF key \in data.has THEN data[key] ELSE Undefined

\* data.key put into the template as it is
MutOrEmpty(data, key) == Get(data, key)

\* data.key || "" for a text property
OrEmpty(data, key) ==
    IF Get(data, key) = Undefined \/ Get(data, key) = <<>> THEN <<>> ELSE Get(data, key)

\* A clearScreen that leaves the cover background as it is
MutClearScreenKeepsCover(sfc) ==
    [className |-> "", display |-> "none", content |-> NoContent, coverBg |-> sfc.coverBg]

\* clearScreen(): the hall page has a #cover-background, and only the hall's
\* clearScreen hides it.
clearScreen(sfc) ==
    [className |-> "", display |-> "none", content |-> NoContent,
     coverBg |-> IF variant = "hall" THEN "none" ELSE sfc.coverBg]

RECURSIVE Sublines(_)
\* The inner loop of the hall's renderLyrics: every line of a group, balanced
Sublines(group) ==
    IF group = <<>> THEN <<>>
    ELSE splitBalanced(Head(group)) \o Sublines(Tail(group))

\* A blank renderer that leaves the slide on
MutRenderBlankKeeps(data, sfc) == sfc

renderBlank(data, sfc) == clearScreen(sfc)

renderLyrics(data, sfc) ==
    IF variant = "hall"
    THEN LET segments == segmentLyrics(split(OrEmpty(data, "headline"), "\n"))
             blocks == [k \in 1..Len(segments) |-> Sublines(segments[k])]
             fit == IF Len(blocks) > 0
                    THEN <<FitDefault(".lyrics-headline", Len(blocks))>>
                    ELSE <<>>
         IN [clearScreen(sfc) EXCEPT
                !.className = "lyrics", !.display = "flex",
                !.content = Content("lyrics", OrEmpty(data, "caption"), <<>>, <<>>, blocks, fit)]
    ELSE [clearScreen(sfc) EXCEPT
                !.className = "lyrics", !.display = "flex",
                !.content = Content("lyrics", OrEmpty(data, "caption"), <<>>,
                                    ReplaceNewlines(OrEmpty(data, "headline")), <<>>,
                                    <<FitDefault(".lyrics-headline", 1)>>)]

renderVerse(data, sfc) ==
    [clearScreen(sfc) EXCEPT
        !.className = "verse", !.display = "flex",
        !.content = Content("verse", OrEmpty(data, "caption"), <<>>,
                            ReplaceNewlines(OrEmpty(data, "headline")), <<>>,
                            <<IF variant = "hall" THEN Fit(".verse-headline", 1, 100, 5)
                              ELSE FitDefault(".verse-headline", 1)>>)]

renderCorner(data, sfc) ==
    [clearScreen(sfc) EXCEPT
        !.display = "block", !.className = "corner",
        !.content = Content("corner", OrEmpty(data, "caption"), <<>>,
                            OrEmpty(data, "headline"), <<>>, <<>>)]

renderAnthem(data, sfc) ==
    [clearScreen(sfc) EXCEPT
        !.className = "anthem-wrapper", !.display = "flex",
        !.content = Content("anthem", OrEmpty(data, "caption"), OrEmpty(data, "caption_choir"),
                            OrEmpty(data, "headline"), <<>>, <<>>)]

renderPrayer(data, sfc) ==
    [clearScreen(sfc) EXCEPT
        !.className = "prayer-wrapper", !.display = "flex",
        !.content = Content("prayer", OrEmpty(data, "caption"), <<>>,
                            OrEmpty(data, "headline"), <<>>,
                            IF variant = "hall" THEN <<Fit(".prayer-headline", 1, 100, 5)>>
                            ELSE <<>>)]

renderGreet(data, sfc) ==
    [clearScreen(sfc) EXCEPT
        !.className = "greet", !.display = "flex",
        !.content = Content("greet", OrEmpty(data, "caption"), <<>>,
                            ReplaceNewlines(OrEmpty(data, "headline")), <<>>,
                            <<IF variant = "hall" THEN Fit(".greet-headline", 1, 100, 5)
                              ELSE Fit(".greet-headline", 1, 48, 5)>>)]

\* js/render_hall.js only
renderIntro(data, sfc) ==
    [clearScreen(sfc) EXCEPT
        !.display = "block", !.className = "intro",
        !.content = Content("intro", OrEmpty(data, "caption"), <<>>,
                            OrEmpty(data, "headline"), <<>>,
                            <<Fit(".intro-headline", 1, 100, 5)>>),
        !.coverBg = "block"]

renderImage(data, sfc) ==
    IF variant = "hall"
    THEN [clearScreen(sfc) EXCEPT
            !.className = "image", !.display = "flex",
            !.content = Content("image", OrEmpty(data, "caption"), <<>>,
                                OrEmpty(data, "headline"), <<>>, <<>>)]
    ELSE [clearScreen(sfc) EXCEPT
            !.display = "block", !.className = "image",
            !.content = Content("image", <<>>, <<>>, OrEmpty(data, "headline"), <<>>, <<>>)]

\* The markup of renderVideo; its pointer and click handlers act on the video.
renderVideo(data, sfc) ==
    [clearScreen(sfc) EXCEPT
        !.className = "video", !.display = "flex",
        !.content = Content("video", <<>>, <<>>, OrEmpty(data, "headline"), <<>>, <<>>)]

\* A call fn(data) of the renderer named fn
Render(fn, data, sfc) ==
    CASE fn = "renderLyrics" -> renderLyrics(data, sfc)
      [] fn = "renderVerse" -> renderVerse(data, sfc)
      [] fn = "renderCorner" -> renderCorner(data, sfc)
      [] fn = "renderAnthem" -> renderAnthem(data, sfc)
      [] fn = "renderPrayer" -> renderPrayer(data, sfc)
      [] fn = "renderGreet" -> renderGreet(data, sfc)
      [] fn = "renderImage" -> renderImage(data, sfc)
      [] fn = "renderIntro" -> renderIntro(data, sfc)
      [] fn = "renderVideo" -> renderVideo(data, sfc)
      [] fn = "renderBlank" -> renderBlank(data, sfc)

----------------------------------------------------------------------------
(* js/main_hall.js, js/main_obs.js: the dispatcher *)

\* The own entries of const renderMap
renderMap ==
    IF variant = "hall"
    THEN [lyrics |-> "renderLyrics", verse |-> "renderVerse", corner |-> "renderCorner",
          anthem |-> "renderAnthem", prayer |-> "renderPrayer", greet |-> "renderGreet",
          image |-> "renderImage", intro |-> "renderIntro", video |-> "renderVideo",
          blank |-> "renderBlank"]
    ELSE [lyrics |-> "renderLyrics", verse |-> "renderVerse", corner |-> "renderCorner",
          anthem |-> "renderAnthem", prayer |-> "renderPrayer", greet |-> "renderGreet",
          image |-> "renderImage", blank |-> "renderBlank"]

\* renderMap[data.style]: an own entry, or what the object literal inherits from
\* Object.prototype (constructor is the function Object, which returns its
\* argument; __proto__ is Object.prototype itself, which is no function), or
\* undefined. A value without a style property reads the key "undefined".
Lookup(data) ==
    IF "style" \notin data.has THEN [kind |-> "undefined", fn |-> ""]
    ELSE IF data.style \in DOMAIN renderMap THEN [kind |-> "renderer", fn |-> renderMap[data.style]]
    ELSE IF data.style = "constructor" THEN [kind |-> "function", fn |-> "Object"]
    ELSE IF data.style = "__proto__" THEN [kind |-> "object", fn |-> ""]
    ELSE [kind |-> "undefined", fn |-> ""]

\* The callback the main script hands to connectWebSocket, on the surface sfc:
\* the functions it invokes, the surface it leaves, and whether it throws.
Outcome(fns, sfc, threw) == [invoked |-> fns, surface |-> sfc, threw |-> threw]

\* A dispatcher that blanks the surface when the parse fails
MutDispatch(raw, sfc) ==
    LET data == JSONparse(raw)
    IN IF data.type = "null" THEN Outcome(<<>>, sfc, TRUE)
       ELSE IF "style" \in data.has /\ data.style \in DOMAIN renderMap
            THEN Outcome(<<renderMap[data.style]>>, Render(renderMap[data.style], data, sfc), FALSE)
       ELSE Outcome(<<"renderBlank">>, renderBlank(data, sfc), FALSE)

dispatch(raw, sfc) ==
    LET data == JSONparse(raw)
        entry == Lookup(data)
    IN IF data.type = "SyntaxError" THEN Outcome(<<>>, sfc, FALSE)
       ELSE IF data.type = "null" THEN Outcome(<<>>, sfc, TRUE)
       ELSE IF entry.kind = "undefined"
            THEN Outcome(<<"renderBlank">>, renderBlank(data, sfc), FALSE)
       ELSE IF entry.kind = "renderer"
            THEN Outcome(<<entry.fn>>, Render(entry.fn, data, sfc), FALSE)
       ELSE IF entry.kind = "function" THEN Outcome(<<entry.fn>>, sfc, FALSE)
       ELSE Outcome(<<>>, sfc, TRUE)

----------------------------------------------------------------------------
(* The WebSocket objects *)

\* WebSocket.readyState. A slot is NONE, CONNECTING, OPEN, CLOSING, ABORTING,
\* FAILED or CLOSED. ABORTING is a socket closed by close() before it opened: its
\* readyState is CLOSING and the browser ends it with error and close. FAILED is
\* the middle of the browser's closing task of a failed socket: readyState is
\* CLOSED, the error handler has run and the close handler runs next.
readyState(s) ==
    CASE sockets[s] \in {"CLOSING", "ABORTING"} -> "CLOSING"
      [] sockets[s] \in {"FAILED", "CLOSED"} -> "CLOSED"
      [] OTHER -> sockets[s]

\* The sockets whose close event has not been delivered yet.
LiveSockets == {s \in SocketSlots : sockets[s] \in {"CONNECTING", "OPEN", "CLOSING", "ABORTING", "FAILED"}}

\* No browser task is half-way: handlers of other events run only then.
Idle == \A s \in SocketSlots : sockets[s] # "FAILED"

\* A closed socket nothing refers to any more is garbage.
Collect(f, keep) ==
    [s \in SocketSlots |-> IF f[s] = "CLOSED" /\ s # keep THEN "NONE" ELSE f[s]]

\* The slots a new WebSocket can take.
FreeSockets == {s \in SocketSlots : sockets[s] \in {"NONE", "CLOSED"}}

\* A close() that does nothing
MutWsClose(f, s) == f

\* WebSocket.close() on socket s
wsClose(f, s) ==
    CASE f[s] = "CONNECTING" -> [f EXCEPT ![s] = "ABORTING"]
      [] f[s] = "OPEN" -> [f EXCEPT ![s] = "CLOSING"]
      [] OTHER -> f

\* clearTimeout that clears nothing
MutClearTimeout(d, h) == d

\* clearTimeout(h) on the pending timeouts
clearTimeout(d, h) == IF h = 0 THEN d ELSE [d EXCEPT ![h] = -1]

----------------------------------------------------------------------------
(* connectWebSocket *)

\* A guard that forgets the in-progress flag
MutReturnsEarly == ws # 0 /\ readyState(ws) = "OPEN"

\* A guard that returns whenever a socket was ever created
MutReturnsEarlyWhenAnySocket == connecting \/ ws # 0

\* The guard at the top of connectWebSocket: the call returns at once.
ReturnsEarly ==
    IF variant = "hall"
    THEN connecting
    ELSE connecting \/ (ws # 0 /\ readyState(ws) = "OPEN")

\* The body of connectWebSocket up to new WebSocket(...): the handlers it
\* installs are the actions below.
connectWebSocket(by) ==
    IF ReturnsEarly
    THEN /\ UNCHANGED <<sockets, ws, connecting>>
         /\ last' = [op |-> by, note |-> "return"]
    ELSE /\ FreeSockets # {}
         /\ LET s == Min(FreeSockets)
            IN /\ connecting' = TRUE
               /\ ws' = s
               /\ sockets' = Collect([sockets EXCEPT ![s] = "CONNECTING"], s)
         /\ last' = [op |-> by, note |-> "new"]

\* main_hall.js / main_obs.js: the one call the page makes when it loads.
MainConnect ==
    /\ ~started
    /\ started' = TRUE
    /\ connectWebSocket("main")
    /\ UNCHANGED <<call, player, variant, pingTimer, pongTimeout, intervals, deadlines, reconnects, screen>>

\* A further call of connectWebSocket by a caller of the transport.
CallConnect ==
    /\ started
    /\ Idle
    /\ connectWebSocket("connect")
    /\ UNCHANGED <<call, player, variant, started, pingTimer, pongTimeout, intervals, deadlines, reconnects, screen>>

\* A reconnect timer that repeats: it stays pending after it has fired
MutReconnectFireKeepsTimer ==
    /\ Idle
    /\ reconnects > 0
    /\ reconnects' = reconnects
    /\ connectWebSocket("reconnect")
    /\ UNCHANGED <<call, player, variant, started, pingTimer, pongTimeout, intervals, deadlines, screen>>

\* The reconnect timer of an onclose fires: () => connectWebSocket(onMessage).
ReconnectFire ==
    /\ Idle
    /\ reconnects > 0
    /\ reconnects' = reconnects - 1
    /\ connectWebSocket("reconnect")
    /\ UNCHANGED <<call, player, variant, started, pingTimer, pongTimeout, intervals, deadlines, screen>>

----------------------------------------------------------------------------
(* The handlers of a socket *)

\* ws.onopen: the connection of socket s is established.
SocketOpen(s) ==
    /\ Idle
    /\ sockets[s] = "CONNECTING"
    /\ \E i \in IntervalSlots : ~intervals[i]
    /\ LET i == Min({j \in IntervalSlots : ~intervals[j]})
       IN /\ intervals' = [intervals EXCEPT ![i] = TRUE]
          /\ pingTimer' = i
    /\ sockets' = [sockets EXCEPT ![s] = "OPEN"]
    /\ connecting' = FALSE
    /\ last' = [op |-> "open", note |-> ""]
    /\ UNCHANGED <<call, player, variant, started, ws, pongTimeout, deadlines, reconnects, screen>>

\* A heartbeat that pings and arms the deadline whatever the socket's state
MutPingTickAlwaysSends(i) ==
    /\ Idle
    /\ intervals[i]
    /\ PongDeadline < PingInterval => \A d \in DeadlineSlots : deadlines[d] # i
    /\ \E d \in DeadlineSlots : deadlines[d] = -1
    /\ LET d == Min({e \in DeadlineSlots : deadlines[e] = -1})
       IN /\ deadlines' = [deadlines EXCEPT ![d] = i]
          /\ pongTimeout' = d
    /\ last' = [op |-> "ping", note |-> "sent"]
    /\ UNCHANGED <<call, player, variant, started, sockets, ws, connecting, pingTimer, intervals, reconnects, screen>>

\* The callback of the setInterval of onopen, for interval i. The deadline of the
\* previous tick of the same interval is 5 s old at most when it fires or is
\* cleared, and the next tick comes 30 s after that one.
PingTick(i) ==
    /\ Idle
    /\ intervals[i]
    /\ PongDeadline < PingInterval => \A d \in DeadlineSlots : deadlines[d] # i
    /\ IF ws # 0 /\ readyState(ws) = "OPEN"
       THEN /\ \E d \in DeadlineSlots : deadlines[d] = -1
            /\ LET d == Min({e \in DeadlineSlots : deadlines[e] = -1})
               IN /\ deadlines' = [deadlines EXCEPT ![d] = i]
                  /\ pongTimeout' = d
            /\ last' = [op |-> "ping", note |-> "sent"]
       ELSE /\ UNCHANGED <<deadlines, pongTimeout>>
            /\ last' = [op |-> "ping", note |-> "skipped"]
    /\ UNCHANGED <<call, player, variant, started, sockets, ws, connecting, pingTimer, intervals, reconnects, screen>>

\* The callback of the setTimeout of a ping, for timeout d: ws.close().
DeadlineFire(d) ==
    /\ Idle
    /\ deadlines[d] # -1
    /\ deadlines' = [deadlines EXCEPT ![d] = -1]
    /\ pongTimeout' = IF pongTimeout = d THEN 0 ELSE pongTimeout
    /\ sockets' = wsClose(sockets, ws)
    /\ last' = [op |-> "deadline", note |-> ""]
    /\ UNCHANGED <<call, player, variant, started, ws, connecting, pingTimer, intervals, reconnects, screen>>

\* An onerror that schedules a reconnect of its own
MutSocketErrorReconnects(s) ==
    /\ Idle
    /\ sockets[s] \in {"CONNECTING", "OPEN", "CLOSING", "ABORTING"}
    /\ reconnects < MaxReconnects
    /\ sockets' = [sockets EXCEPT ![s] = "FAILED"]
    /\ connecting' = FALSE
    /\ reconnects' = reconnects + 1
    /\ last' = [op |-> "error", note |-> ""]
    /\ UNCHANGED <<call, player, variant, started, ws, pingTimer, pongTimeout, intervals, deadlines, screen>>

\* ws.onerror: the connection of socket s has failed. The browser sets readyState
\* to CLOSED and fires error, then close, in one task.
SocketError(s) ==
    /\ Idle
    /\ sockets[s] \in {"CONNECTING", "OPEN", "CLOSING", "ABORTING"}
    /\ sockets' = [sockets EXCEPT ![s] = "FAILED"]
    /\ connecting' = FALSE
    /\ last' = [op |-> "error", note |-> ""]
    /\ UNCHANGED <<call, player, variant, started, ws, pingTimer, pongTimeout, intervals, deadlines, reconnects, screen>>

\* An onclose that leaves the heartbeat interval running
MutOncloseKeepsInterval(s) ==
    /\ reconnects < MaxReconnects
    /\ connecting' = FALSE
    /\ intervals' = intervals
    /\ pingTimer' = 0
    /\ deadlines' = [d \in DeadlineSlots |-> IF d = pongTimeout THEN -1 ELSE deadlines[d]]
    /\ pongTimeout' = 0
    /\ reconnects' = reconnects + 1
    /\ sockets' = Collect([sockets EXCEPT ![s] = "CLOSED"], ws)
    /\ last' = [op |-> "close", note |-> ""]

\* An onclose that schedules no reconnect
MutOncloseNoRetry(s) ==
    /\ connecting' = FALSE
    /\ intervals' = IF pingTimer = 0 THEN intervals ELSE [intervals EXCEPT ![pingTimer] = FALSE]
    /\ pingTimer' = 0
    /\ deadlines' = [d \in DeadlineSlots |->
                        IF d = pongTimeout THEN -1
                        ELSE IF pingTimer # 0 /\ deadlines[d] = pingTimer THEN 0
                        ELSE deadlines[d]]
    /\ pongTimeout' = 0
    /\ reconnects' = reconnects
    /\ sockets' = Collect([sockets EXCEPT ![s] = "CLOSED"], ws)
    /\ last' = [op |-> "close", note |-> ""]

\* The body of ws.onclose for socket s.
onclose(s) ==
    /\ reconnects < MaxReconnects
    /\ connecting' = FALSE
    /\ intervals' = IF pingTimer = 0 THEN intervals ELSE [intervals EXCEPT ![pingTimer] = FALSE]
    /\ pingTimer' = 0
    /\ deadlines' = [d \in DeadlineSlots |->
                        IF d = pongTimeout THEN -1
                        ELSE IF pingTimer # 0 /\ deadlines[d] = pingTimer THEN 0
                        ELSE deadlines[d]]
    /\ pongTimeout' = 0
    /\ reconnects' = reconnects + 1
    /\ sockets' = Collect([sockets EXCEPT ![s] = "CLOSED"], ws)
    /\ last' = [op |-> "close", note |-> ""]

\* ws.onclose after ws.onerror, in the same task.
SocketCloseAfterError(s) ==
    /\ sockets[s] = "FAILED"
    /\ onclose(s)
    /\ UNCHANGED <<call, player, variant, started, ws, screen>>

\* ws.onclose of a socket that was open and closes without an error.
SocketClose(s) ==
    /\ Idle
    /\ sockets[s] \in {"OPEN", "CLOSING"}
    /\ onclose(s)
    /\ UNCHANGED <<call, player, variant, started, ws, screen>>

\* onMessage(event.data): the call of the callback handed to connectWebSocket.
onMessage(raw) ==
    LET out == dispatch(raw, surface)
    IN /\ dispatched' = Append(dispatched, raw)
       /\ invoked' = invoked \o out.invoked
       /\ thrown' = IF out.threw THEN Append(thrown, raw) ELSE thrown
       /\ surface' = out.surface

\* An onmessage that forwards the acknowledgment too
MutSocketMessage(s, m) ==
    /\ Idle
    /\ sockets[s] = "OPEN"
    /\ Len(received) < MaxMsgs
    /\ received' = Append(received, m)
    /\ onMessage(m)
    /\ deadlines' = IF m = PONG THEN clearTimeout(deadlines, pongTimeout) ELSE deadlines
    /\ pongTimeout' = IF m = PONG THEN 0 ELSE pongTimeout
    /\ last' = [op |-> "message", note |-> IF m = PONG THEN "pong" ELSE "forwarded"]
    /\ UNCHANGED <<call, player, variant, started, sockets, ws, connecting, pingTimer, intervals, reconnects>>

\* ws.onmessage: message m arrives on socket s (the browser delivers messages
\* only to a socket that is OPEN).
SocketMessage(s, m) ==
    /\ Idle
    /\ sockets[s] = "OPEN"
    /\ Len(received) < MaxMsgs
    /\ received' = Append(received, m)
    /\ IF m = PONG
       THEN /\ deadlines' = clearTimeout(deadlines, pongTimeout)
            /\ pongTimeout' = 0
            /\ last' = [op |-> "message", note |-> "pong"]
            /\ UNCHANGED <<dispatched, invoked, thrown, surface>>
       ELSE /\ onMessage(m)
            /\ last' = [op |-> "message", note |-> "forwarded"]
            /\ UNCHANGED <<deadlines, pongTimeout>>
    /\ UNCHANGED <<call, player, variant, started, sockets, ws, connecting, pingTimer, intervals, reconnects>>

----------------------------------------------------------------------------
(* renderVideo: the <video> element, the controls and the handlers installed *)

\* No video slide is on the page.
NoPlayer ==
    [hover |-> FALSE, opacity |-> "", pointerEvents |-> "", hideTimer |-> 0,
     timers |-> [h \in HideSlots |-> "none"], paused |-> TRUE, loaded |-> FALSE,
     duration |-> 0, currentTime |-> 0, awaiting |-> 0]

\* The slide as renderVideo leaves it: controls with opacity 0 and
\* pointer-events none, let hideTimer = null, a <video autoplay> on a media
\* file of some duration, of which no metadata has arrived yet (video.duration
\* reads NaN while loaded is FALSE). The pointer is over the box or not, and the
\* browser lets the video autoplay or not.
NewPlayers ==
    {[NoPlayer EXCEPT !.opacity = "0", !.pointerEvents = "none",
                      !.hover = hover, !.paused = paused, !.duration = d] :
        hover \in BOOLEAN, paused \in BOOLEAN, d \in 0..MaxDuration}

\* The pending hide timers. A timer is "fresh" when no pointer activity has
\* come after the call that started it, and "stale" otherwise.
PendingHide == {h \in HideSlots : player.timers[h] # "none"}

\* Pointer activity reaches the page: the timers pending are older than it.
Aged(p) ==
    [p EXCEPT !.timers = [h \in HideSlots |-> IF p.timers[h] = "fresh" THEN "stale" ELSE p.timers[h]]]

\* if (hideTimer) clearTimeout(hideTimer), on the hide timers of the slide
CancelHide(timers, h) == IF h = 0 THEN timers ELSE [timers EXCEPT ![h] = "none"]

\* showControls(): show, cancel the timer hideTimer names, start a new one.
showControls(p) ==
    LET cleared == CancelHide(p.timers, p.hideTimer)
        h == Min({k \in HideSlots : cleared[k] = "none"})
    IN [p EXCEPT !.opacity = "1", !.pointerEvents = "auto",
                 !.timers = [cleared EXCEPT ![h] = "fresh"], !.hideTimer = h]

\* The currentTime setter: before any metadata has loaded (readyState
\* HAVE_NOTHING) the value becomes the default playback start position, which
\* the getter returns; afterwards the element seeks, and a seek goes no further
\* than the ends of the media.
SetCurrentTime(p, t) ==
    [p EXCEPT !.currentTime = IF ~p.loaded THEN t
                              ELSE IF t < 0 THEN 0
                              ELSE IF t > p.duration THEN p.duration
                              ELSE t]

\* video.play(): paused becomes false at once, playback that has ended starts
\* over, and the promise returned settles later.
play(p) ==
    IF p.loaded /\ p.currentTime = p.duration
    THEN [p EXCEPT !.paused = FALSE, !.currentTime = 0]
    ELSE [p EXCEPT !.paused = FALSE]

\* A seek back that is not clamped
MutSeekBackUnclamped(t) == t - SeekStep

\* Math.max(0, (video.currentTime || 0) - 5)
seekBack(t) == IF t - SeekStep > 0 THEN t - SeekStep ELSE 0

\* Math.min(video.duration || Infinity, (video.currentTime || 0) + 5): a
\* duration of NaN or 0 gives Infinity.
seekForward(p) ==
    IF p.loaded /\ p.duration # 0 /\ p.duration < p.currentTime + SeekStep
    THEN p.duration
    ELSE p.currentTime + SeekStep

\* The buttons of the controls (data-act)
Acts == {"toggle", "stop", "back", "fwd"}

\* mouseenter on the box: showControls
MouseEnter ==
    /\ ~player.hover
    /\ \E h \in HideSlots : player.timers[h] = "none"
    /\ player' = showControls(Aged([player EXCEPT !.hover = TRUE]))
    /\ last' = [op |-> "mouseenter", note |-> ""]
    /\ UNCHANGED <<call, variant, started, transport, screen>>

\* mousemove on the box: showControls
MouseMove ==
    /\ player.hover
    /\ \E h \in HideSlots : player.timers[h] = "none"
    /\ player' = showControls(Aged(player))
    /\ last' = [op |-> "mousemove", note |-> ""]
    /\ UNCHANGED <<call, variant, started, transport, screen>>

\* mouseleave on the box: cancel the timer hideTimer names and hide.
MouseLeave ==
    /\ player.hover
    /\ player' = [player EXCEPT !.hover = FALSE,
                                !.timers = CancelHide(@, player.hideTimer),
                                !.opacity = "0", !.pointerEvents = "none"]
    /\ last' = [op |-> "mouseleave", note |-> ""]
    /\ UNCHANGED <<call, variant, started, transport, screen>>

\* The callback of the setTimeout of showControls, for timer h: hide.
HideTimerFire(h) ==
    /\ player.timers[h] # "none"
    /\ player' = [player EXCEPT !.timers[h] = "none",
                                !.opacity = "0", !.pointerEvents = "none"]
    /\ last' = [op |-> "hide", note |-> player.timers[h]]
    /\ UNCHANGED <<call, variant, started, transport, screen>>

\* click on a button of the controls, which takes clicks only while
\* pointer-events is auto. The handler is async: for toggle on a paused video
\* it stops at await video.play() and calls showControls() when the promise
\* has settled; on every other path it runs to its end at once.
ControlClick(act) ==
    /\ player.hover
    /\ player.pointerEvents = "auto"
    /\ \E h \in HideSlots : player.timers[h] = "none"
    /\ act = "fwd" => player.currentTime <= MaxDuration
    /\ LET p == Aged(player)
       IN CASE act = "toggle" /\ p.paused ->
                 /\ p.awaiting < MaxAwaits
                 /\ player' = [play(p) EXCEPT !.awaiting = @ + 1]
            [] act = "toggle" /\ ~p.paused ->
                 player' = showControls([p EXCEPT !.paused = TRUE])
            [] act = "stop" ->
                 player' = showControls(SetCurrentTime([p EXCEPT !.paused = TRUE], 0))
            [] act = "back" ->
                 player' = showControls(SetCurrentTime(p, seekBack(p.currentTime)))
            [] act = "fwd" ->
                 player' = showControls(SetCurrentTime(p, seekForward(p)))
    /\ last' = [op |-> "click", note |-> act]
    /\ UNCHANGED <<call, variant, started, transport, screen>>

\* The promise of video.play() settles (playback has begun, or the call is
\* rejected and the handler catches it): the click handler goes on to
\* showControls().
PlaySettles ==
    /\ player.awaiting > 0
    /\ \E h \in HideSlots : player.timers[h] = "none"
    /\ player' = showControls([player EXCEPT !.awaiting = @ - 1])
    /\ last' = [op |-> "settle", note |-> ""]
    /\ UNCHANGED <<call, variant, started, transport, screen>>

\* click on the video itself: video.play(), and nothing after the await.
VideoClick ==
    /\ player.hover
    /\ player.paused
    /\ player' = play(player)
    /\ last' = [op |-> "videoclick", note |-> ""]
    /\ UNCHANGED <<call, variant, started, transport, screen>>

\* The metadata of the video arrives: the duration is known, and a default
\* playback start position set meanwhile is sought.
LoadedMetadata ==
    /\ ~player.loaded
    /\ player' = SetCurrentTime([player EXCEPT !.loaded = TRUE], player.currentTime)
    /\ last' = [op |-> "loadedmetadata", note |-> ""]
    /\ UNCHANGED <<call, variant, started, transport, screen>>

\* Playback advances by a second; at the end of the media the video pauses.
TimeUpdate ==
    /\ player.loaded
    /\ ~player.paused
    /\ player.currentTime < player.duration
    /\ player' = [player EXCEPT !.currentTime = @ + 1,
                                !.paused = (player.currentTime + 1 = player.duration)]
    /\ last' = [op |-> "timeupdate", note |-> ""]
    /\ UNCHANGED <<call, variant, started, transport, screen>>

----------------------------------------------------------------------------
(* Specifications *)

\* No function is called on its own while the page runs.
NoCall == [fn |-> "", arg |-> <<>>, out |-> <<>>, done |-> FALSE]

Init ==
    /\ variant \in Variants
    /\ started = FALSE
    /\ sockets = [s \in SocketSlots |-> "NONE"]
    /\ ws = 0
    /\ connecting = FALSE
    /\ pingTimer = 0
    /\ pongTimeout = 0
    /\ intervals = [i \in IntervalSlots |-> FALSE]
    /\ deadlines = [d \in DeadlineSlots |-> -1]
    /\ reconnects = 0
    /\ received = <<>>
    /\ dispatched = <<>>
    /\ invoked = <<>>
    /\ thrown = <<>>
    /\ surface = InitialSurface
    /\ last = [op |-> "load", note |-> ""]
    /\ call = NoCall
    /\ player = NoPlayer

\* A step of the page when the server sends messages of M: main's call, the
\* sockets' events and the timers.
Page(M) ==
    \/ MainConnect
    \/ ReconnectFire
    \/ \E s \in SocketSlots : SocketOpen(s)
    \/ \E i \in IntervalSlots : PingTick(i)
    \/ \E d \in DeadlineSlots : DeadlineFire(d)
    \/ \E s \in SocketSlots : SocketError(s)
    \/ \E s \in SocketSlots : SocketCloseAfterError(s)
    \/ \E s \in SocketSlots : SocketClose(s)
    \/ \E s \in SocketSlots, m \in M : SocketMessage(s, m)

\* The page as it runs.
Next == Page(Messages)

Spec == Init /\ [][Next]_vars

\* The transport under a caller that may call connectWebSocket again at any time.
NextApi == Page(TransportMessages) \/ CallConnect

SpecApi == Init /\ [][NextApi]_vars

\* The page as it runs, with what the browser and its timers guarantee: a due
\* timer fires, the closing task of a failed socket completes, a socket that is
\* closing gets its close event, and a connection attempt ends in open or error.
Fairness ==
    /\ WF_vars(ReconnectFire)
    /\ WF_vars(\E d \in DeadlineSlots : DeadlineFire(d))
    /\ WF_vars(\E s \in SocketSlots : SocketCloseAfterError(s))
    /\ WF_vars(\E s \in SocketSlots :
            sockets[s] \in {"CLOSING", "ABORTING"} /\ (SocketClose(s) \/ SocketError(s)))
    /\ WF_vars(\E s \in SocketSlots :
            sockets[s] = "CONNECTING" /\ (SocketOpen(s) \/ SocketError(s)))

SpecLive == Init /\ [][Next]_vars /\ Fairness

----------------------------------------------------------------------------
(* The functions of the page, each called on its own with arguments of its
   domain. The page itself does not run here: its state stays as loaded. *)

\* A call that has been made and has not returned
Called(fn, arg) == [fn |-> fn, arg |-> arg, out |-> <<>>, done |-> FALSE]

\* The sequences over S of at most n elements
SeqUpTo(S, n) == UNION {[1..k -> S] : k \in 0..n}

\* Lines of a headline: lyric words, lines that are empty or blank, and the
\* interlude marker, bare or indented.
LyricLines ==
    {<<"A">>, <<"B", " ">>, <<>>, <<" ">>, INTERLUDE, <<" ">> \o INTERLUDE}

\* Words of a lyric line, of one, two and four characters, and the amen token
Tokens == {<<"a">>, <<"b", "b">>, <<"c", "c", "c", "c">>, AMEN}

\* A lyric line of the given words: set tight, or loose (padded, two spaces apart)
LineOf(toks, loose) ==
    IF loose THEN <<" ">> \o join(toks, <<" ", " ">>) \o <<" ">> ELSE join(toks, <<" ">>)

BalanceLines == {LineOf(toks, loose) : toks \in SeqUpTo(Tokens, MaxWords), loose \in BOOLEAN}

\* Font sizes, and the elements autoShrinkFont is called on with its bounds
Sizes == 1..MaxSize
FitArgs == [fits : SUBSET Sizes, maxFont : Sizes, minFont : Sizes]

\* The calls studied, one function at a time
SegmentCalls == {Called("segmentLyrics", lines) : lines \in SeqUpTo(LyricLines, MaxLines)}
BalanceCalls == {Called("splitBalanced", line) : line \in BalanceLines}
FitCalls == {Called("autoShrinkFont", a) : a \in FitArgs}

\* A payload object with the text properties of the set has, and no others
Payload(has) ==
    Parsed("object", has, "",
           IF "headline" \in has THEN <<"A", " ", "B", "\n", "C">> ELSE Undefined,
           IF "caption" \in has THEN <<"T">> ELSE Undefined,
           IF "caption_choir" \in has THEN <<"U">> ELSE Undefined)

\* The renderers of the page, each called with each such payload
RenderCalls ==
    {Called("render", [fn |-> fn, data |-> Payload(has)]) :
        fn \in Range(renderMap), has \in SUBSET {"headline", "caption", "caption_choir"}}

\* Headlines of lyrics slides: lines of lyric words, blank lines and interlude
\* markers, joined by newlines
LyricHeadlines ==
    {join(lines, <<"\n">>) :
        lines \in SeqUpTo(LyricLines \cup {<<"a", " ", "b", "b">>}, MaxLines)}

\* The lyrics renderer called with each such headline
LyricsCalls ==
    {Called("render", [fn |-> "renderLyrics",
                       data |-> Parsed("object", {"style", "headline", "caption"}, "lyrics",
                                       h, <<"T">>, Undefined)]) :
        h \in LyricHeadlines}

InitCalls ==
    /\ variant \in Variants
    /\ started = FALSE
    /\ sockets = [s \in SocketSlots |-> "NONE"]
    /\ ws = 0
    /\ connecting = FALSE
    /\ pingTimer = 0
    /\ pongTimeout = 0
    /\ intervals = [i \in IntervalSlots |-> FALSE]
    /\ deadlines = [d \in DeadlineSlots |-> -1]
    /\ reconnects = 0
    /\ received = <<>>
    /\ dispatched = <<>>
    /\ invoked = <<>>
    /\ thrown = <<>>
    /\ surface = InitialSurface
    /\ last = [op |-> "load", note |-> ""]
    /\ player = NoPlayer
    /\ \/ variant = "hall" /\ call \in SegmentCalls
       \/ variant = "hall" /\ call \in BalanceCalls
       \/ call \in FitCalls
       \/ call \in RenderCalls
       \/ call \in LyricsCalls

\* The call returns with the result out.
Returns(out) ==
    /\ ~call.done
    /\ call' = [call EXCEPT !.out = out, !.done = TRUE]
    /\ UNCHANGED <<variant, started, transport, screen, last, player>>

\* segmentLyrics(lines) runs (the hall's lyrics utilities).
RunSegmentLyrics ==
    /\ call.fn = "segmentLyrics"
    /\ variant = "hall"
    /\ Returns(segmentLyrics(call.arg))

\* splitBalanced(line) runs (the hall's lyrics utilities).
RunSplitBalanced ==
    /\ call.fn = "splitBalanced"
    /\ variant = "hall"
    /\ Returns(splitBalanced(call.arg))

\* autoShrinkFont(el, maxFont, minFont) runs on an element of the given layout.
RunAutoShrinkFont ==
    /\ call.fn = "autoShrinkFont"
    /\ Returns(autoShrinkFont(call.arg.fits, call.arg.maxFont, call.arg.minFont))

\* A renderer runs on the surface of the page as loaded.
RunRender ==
    /\ call.fn = "render"
    /\ Returns(Render(call.arg.fn, call.arg.data, InitialSurface))

NextCalls ==
    \/ RunSegmentLyrics
    \/ RunSplitBalanced
    \/ RunAutoShrinkFont
    \/ RunRender

SpecCalls == InitCalls /\ [][NextCalls]_vars

----------------------------------------------------------------------------
(* A video slide under the pointer: renderVideo has run on the page as loaded,
   and the events of the box, the controls, the timers and the video follow. *)

InitVideo ==
    /\ variant \in Variants
    /\ started = FALSE
    /\ sockets = [s \in SocketSlots |-> "NONE"]
    /\ ws = 0
    /\ connecting = FALSE
    /\ pingTimer = 0
    /\ pongTimeout = 0
    /\ intervals = [i \in IntervalSlots |-> FALSE]
    /\ deadlines = [d \in DeadlineSlots |-> -1]
    /\ reconnects = 0
    /\ received = <<>>
    /\ dispatched = <<>>
    /\ invoked = <<"renderVideo">>
    /\ thrown = <<>>
    /\ surface = renderVideo(Payload({"headline"}), InitialSurface)
    /\ last = [op |-> "render", note |-> ""]
    /\ call = NoCall
    /\ player \in NewPlayers

NextVideo ==
    \/ MouseEnter
    \/ MouseMove
    \/ MouseLeave
    \/ \E h \in HideSlots : HideTimerFire(h)
    \/ \E act \in Acts : ControlClick(act)
    \/ PlaySettles
    \/ VideoClick
    \/ LoadedMetadata
    \/ TimeUpdate

SpecVideo == InitVideo /\ [][NextVideo]_vars

----------------------------------------------------------------------------
(* Claims *)

\* The handlers that call connectWebSocket
ConnectOps == {"main", "connect", "reconnect"}

\* What connectWebSocket and the heartbeat own
ConnectionState == <<sockets, ws, connecting, pingTimer, pongTimeout, intervals, deadlines>>

\* C1: in both variants a call of connect while the current socket is OPEN
\* creates no socket and leaves the socket handle, the sockets, the in-progress
\* flag and the heartbeat timers as they were.
C1_ConnectWhileOpenIsNoop ==
    [][(last'.op \in ConnectOps /\ ws # 0 /\ readyState(ws) = "OPEN")
          => UNCHANGED ConnectionState]_vars

\* C2: in both variants a call of connect while the in-progress flag is set and
\* the current socket is still CONNECTING returns at once: no socket is created
\* and the socket handle, the flag and the timers are unchanged.
C2_ConnectWhileConnectingIsNoop ==
    [][(last'.op \in ConnectOps /\ connecting /\ ws # 0 /\ sockets[ws] = "CONNECTING")
          => (last'.note = "return" /\ UNCHANGED ConnectionState)]_vars

\* C2's case: a further call has just returned at the guard, with the attempt
\* it found in progress still in progress.
C2_Witness ==
    /\ last = [op |-> "connect", note |-> "return"]
    /\ connecting
    /\ ws # 0
    /\ sockets[ws] = "CONNECTING"

\* C3: at most one socket is live (its close event not yet delivered) and at
\* most one connection attempt is in flight, whatever the interleaving of
\* connect calls, socket events and timers.
C3_AtMostOneLiveSocket ==
    /\ Cardinality(LiveSockets) <= 1
    /\ Cardinality({s \in SocketSlots : sockets[s] = "CONNECTING"}) <= 1

----------------------------------------------------------------------------
(* The heartbeat and the reconnection, for the page as it runs *)

Pending == {d \in DeadlineSlots : deadlines[d] # -1}
Active == {i \in IntervalSlots : intervals[i]}

\* The last inbound message, once a message step has appended it
LastReceived == received[Len(received)]
LastDispatched == dispatched[Len(dispatched)]

\* C4: a deadline that fires (no pong came since its ping, whatever else came)
\* closes the open socket; a message that is not pong leaves the deadline armed;
\* the close event follows the close; and the close leads to one reconnect timer
\* and, when it fires, to one new socket: never two timers, never two sockets.
C4_DeadlineClosesAndReconnectsOnce ==
    /\ [][(last'.op = "deadline")
            => (ws # 0 /\ sockets[ws] = "OPEN" /\ sockets' = [sockets EXCEPT ![ws] = "CLOSING"])]_vars
    /\ [][(last'.op = "message" /\ last'.note = "forwarded")
            => UNCHANGED <<deadlines, pongTimeout, sockets>>]_vars
    /\ [](reconnects <= 1 /\ Cardinality(LiveSockets) <= 1)
    /\ [](reconnects = 1 => LiveSockets = {})
    /\ (last.op = "deadline") ~> (last.op = "close" /\ reconnects = 1 /\ LiveSockets = {})
    /\ (last.op = "close")
          ~> (last = [op |-> "reconnect", note |-> "new"] /\ reconnects = 0
                /\ Cardinality(LiveSockets) = 1)

\* C4's case: the deadline has fired on a socket that received messages, none
\* of them pong, and the socket is closing.
C4_Witness ==
    /\ last.op = "deadline"
    /\ sockets[ws] = "CLOSING"
    /\ received # <<>>
    /\ PONG \notin Range(received)

\* C5: once pong arrives, the deadline armed by the ping before it is cancelled:
\* no deadline is left to fire, and the socket stays open until something other
\* than that probe ends it (a deadline fires only for a ping sent afterwards).
C5_PongCancelsDeadline ==
    /\ [][(last'.op = "message" /\ last'.note = "pong")
            => (Pending' = {} /\ pongTimeout' = 0 /\ sockets' = sockets)]_vars
    /\ [][(last'.op = "deadline") => (last.op # "message" \/ last.note # "pong")]_vars
    /\ [][(last'.op = "deadline") => (Pending = {pongTimeout} /\ Pending' = {})]_vars

\* C5's case: pong has arrived while a deadline was pending (a ping was sent
\* and none of the events since has cleared it).
C5_Witness ==
    /\ last = [op |-> "message", note |-> "pong"]
    /\ Pending = {}
    /\ ws # 0
    /\ sockets[ws] = "OPEN"
    /\ received = <<PONG>>

\* C6: every close event clears both heartbeat timers, resets the in-progress
\* flag and schedules exactly one reconnect timer; and from the close handler on,
\* while the sockets are closed or have not opened yet, no heartbeat timer is
\* pending.
C6_CloseClearsAndSchedulesOnce ==
    /\ [][(last'.op = "close")
            => /\ connecting' = FALSE
               /\ reconnects' = reconnects + 1
               /\ pingTimer # 0 => ~intervals'[pingTimer]
               /\ pongTimeout # 0 => deadlines'[pongTimeout] = -1
               /\ Active' = {}
               /\ Pending' = {}]_vars
    /\ []((\A s \in SocketSlots : sockets[s] \in {"NONE", "CLOSED", "CONNECTING", "ABORTING"})
            => (Active = {} /\ Pending = {}))

\* C6's case: a close event has just been handled.
C6_Witness ==
    /\ last.op = "close"
    /\ reconnects = 1
    /\ Active = {}

\* C7: the client never gives up. After every close event a new connection
\* attempt is made, and no state is terminal; and if the server accepts
\* attempts again and again, the client is open again after every close.
C7_NeverGivesUp ==
    /\ (last.op = "close") ~> (last = [op |-> "reconnect", note |-> "new"])
    /\ [](started => (LiveSockets # {} \/ reconnects > 0))
    /\ SF_vars(\E s \in SocketSlots : SocketOpen(s))
          => ((last.op = "close") ~> (ws # 0 /\ sockets[ws] = "OPEN"))

\* C7's case: after the close of a socket that had been open and received a
\* message, the reconnect timer has fired and made a new attempt.
C7_Witness ==
    /\ last = [op |-> "reconnect", note |-> "new"]
    /\ received # <<>>
    /\ sockets[ws] = "CONNECTING"

\* C8: the callback gets exactly the inbound messages other than "pong", once
\* each, unmodified and in order; "pong" never reaches it.
C8_ForwardsAllButPong ==
    dispatched = SelectSeq(received, LAMBDA m : m # PONG)

\* C8's case: a pong and another message have both arrived.
C8_Witness ==
    /\ PONG \in Range(received)
    /\ dispatched # <<>>

\* The slide a message that parses is meant to show: the one of the renderer
\* registered for its style, the blank one for any other value.
Intended(raw) ==
    LET data == JSONparse(raw)
    IN IF "style" \in data.has /\ data.style \in DOMAIN renderMap
       THEN Render(renderMap[data.style], data, InitialSurface)
       ELSE renderBlank(data, InitialSurface)

\* The messages that parse, among those received
Valid(msgs) == SelectSeq(msgs, LAMBDA m : JSONparse(m).type # "SyntaxError")

\* C9: messages reach the dispatcher in the order received, one dispatch per
\* message, and the surface shows the slide of the most recently received
\* message that is valid JSON.
C9_InOrderAndLatestShown ==
    /\ dispatched = SelectSeq(received, LAMBDA m : m # PONG)
    /\ Valid(received) # <<>>
          => surface = Intended(Valid(received)[Len(Valid(received))])

\* C10: dispatching a message that is not valid JSON invokes no renderer and
\* leaves the whole surface as it was.
C10_MalformedChangesNothing ==
    [][(Len(dispatched') = Len(dispatched) + 1
          /\ JSONparse(dispatched'[Len(dispatched')]).type = "SyntaxError")
          => (surface' = surface /\ invoked' = invoked)]_vars

\* C10's case: a message that is no JSON has been dispatched while a slide
\* was showing.
C10_Witness ==
    /\ last = [op |-> "message", note |-> "forwarded"]
    /\ JSONparse(LastDispatched).type = "SyntaxError"
    /\ surface.className = "verse"

----------------------------------------------------------------------------
(* The dispatcher and the renderers *)

\* A message step that has called the callback with a message that parses
Dispatches(type) ==
    /\ Len(dispatched') = Len(dispatched) + 1
    /\ JSONparse(dispatched'[Len(dispatched')]).type \in type

JsonTypes == {"null", "number", "string", "array", "object"}

\* The functions registered in renderMap
Renderers == Range(renderMap)

\* The style of the parsed message is a key of renderMap
Registered(raw) ==
    /\ "style" \in JSONparse(raw).has
    /\ JSONparse(raw).style \in DOMAIN renderMap

\* C11: a message that parses and whose style is no registered name (or is
\* missing) leaves exactly what a message with style "blank" leaves: the blank
\* renderer has run, and the surface is the one it makes.
C11_UnknownStyleIsBlank ==
    [][(Dispatches(JsonTypes) /\ ~Registered(dispatched'[Len(dispatched')]))
          => /\ surface' = dispatch("{\"style\":\"blank\"}", surface).surface
             /\ invoked' = Append(invoked, "renderBlank")]_vars

\* C12: the callback throws on no message that parses as JSON (a message that
\* does not parse is caught and never recorded as thrown).
C12_DispatchNeverThrows == thrown = <<>>

\* C13: dispatching a payload object invokes one renderer, once; the surface it
\* leaves is the one it leaves from the untouched surface, whatever was shown
\* before; and dispatching it once more changes nothing.
C13_OneRendererStateFromPayloadOnly ==
    [][Dispatches({"object"})
          => LET P == dispatched'[Len(dispatched')]
             IN /\ Len(invoked') = Len(invoked) + 1
                /\ invoked'[Len(invoked')] \in Renderers
                /\ surface' = dispatch(P, InitialSurface).surface
                /\ dispatch(P, surface').surface = surface']_vars

----------------------------------------------------------------------------
(* The lyrics utilities *)

RECURSIVE Flatten(_)
\* The lines of the segments, in order
Flatten(segments) ==
    IF segments = <<>> THEN <<>> ELSE Head(segments) \o Flatten(Tail(segments))

\* The input lines, trimmed
Trimmed(lines) == [k \in 1..Len(lines) |-> trim(lines[k])]

\* The positions of the input lines that are not empty after trimming
NonEmptyAt(lines) ==
    SelectSeq([k \in 1..Len(lines) |-> k], LAMBDA k : trim(lines[k]) # <<>>)

Segmented == call.fn = "segmentLyrics" /\ call.done

\* C14: the segments, concatenated in order, are exactly the trimmed non-empty
\* input lines in input order; a segment that contains the interlude marker is
\* that marker alone; and the lines A, B, empty, marker, C give [A, B], [marker],
\* [C].
C14_SegmentKeepsLinesInOrder ==
    /\ Segmented =>
          /\ Flatten(call.out) = SelectSeq(Trimmed(call.arg), LAMBDA t : t # <<>>)
          /\ \A k \in 1..Len(call.out) :
                INTERLUDE \in Range(call.out[k]) => call.out[k] = <<INTERLUDE>>
    /\ segmentLyrics(<<(<<"A">>), (<<"B">>), (<<>>), INTERLUDE, (<<"C">>)>>)
          = <<(<<(<<"A">>), (<<"B">>)>>), (<<INTERLUDE>>), (<<(<<"C">>)>>)>>

\* C14's case: lines with an indented marker after a buffered line and a blank
\* line have been segmented into three segments.
C14_Witness ==
    /\ Segmented
    /\ call.arg = <<(<<"B", " ">>), (<<" ">>), (<<" ">> \o INTERLUDE), (<<"A">>)>>
    /\ Len(call.out) = 3

\* A line of a segment that is neither empty nor the marker, and is trimmed
Regular(line) == line # <<>> /\ line # INTERLUDE /\ trim(line) = line

\* C15: every segment is non-empty; it is the marker alone, or one or two
\* regular lines; and the two lines of a segment are neighbours in the input
\* (no line at all lies between them).
C15_SegmentsWellFormed ==
    Segmented =>
        \A k \in 1..Len(call.out) :
            LET seg == call.out[k]
                before == Len(Flatten(SubSeq(call.out, 1, k - 1)))
                at == NonEmptyAt(call.arg)
            IN /\ seg # <<>>
               /\ \/ seg = <<INTERLUDE>>
                  \/ Len(seg) \in {1, 2} /\ \A j \in 1..Len(seg) : Regular(seg[j])
               /\ Len(seg) = 2 =>
                     /\ before + 2 <= Len(at)
                     /\ at[before + 2] = at[before + 1] + 1

\* C15's case: two regular lines that a blank line separates have been
\* segmented, and a pair of neighbours too.
C15_Witness ==
    /\ Segmented
    /\ call.arg = <<(<<"A">>), (<<>>), (<<"A">>), (<<"B", " ">>)>>
    /\ call.out = <<(<<(<<"A">>)>>), (<<(<<"A">>), (<<"B">>)>>)>>

Balanced == call.fn = "splitBalanced" /\ call.done

\* The tokens of a line, and those left when a trailing amen is detached
TokensOf(line) == splitWs(trim(line))
EndsInAmen(line) == TokensOf(line)[Len(TokensOf(line))] = AMEN
Remaining(line) ==
    IF EndsInAmen(line)
    THEN SubSeq(TokensOf(line), 1, Len(TokensOf(line)) - 1)
    ELSE TokensOf(line)

RECURSIVE JoinedLen(_)
\* The number of characters of words joined by single spaces
JoinedLen(words) ==
    IF words = <<>> THEN 0
    ELSE IF Len(words) = 1 THEN Len(words[1])
    ELSE Len(words[1]) + 1 + JoinedLen(Tail(words))

\* The difference of the lengths of the two halves of a split at i
HalvesDiff(words, i) ==
    LET d == JoinedLen(SubSeq(words, 1, i)) - JoinedLen(SubSeq(words, i + 1, Len(words)))
    IN IF d < 0 THEN -d ELSE d

\* By brute force over all indices: the smallest index of least difference
LeastDiffIndex(words) ==
    CHOOSE i \in 1..(Len(words) - 1) :
        \A j \in 1..(Len(words) - 1) :
            \/ HalvesDiff(words, i) < HalvesDiff(words, j)
            \/ HalvesDiff(words, i) = HalvesDiff(words, j) /\ i <= j

\* C16: for a line with at least two tokens left after a trailing amen is
\* detached, the first two entries are the prefix and the suffix of the split
\* at the smallest index that minimises the difference of their lengths.
C16_SplitAtFirstLeastDifference ==
    (Balanced /\ Len(Remaining(call.arg)) >= 2) =>
        LET words == Remaining(call.arg)
            i == LeastDiffIndex(words)
        IN SubSeq(call.out, 1, 2) =
              <<join(SubSeq(words, 1, i), <<" ">>), join(SubSeq(words, i + 1, Len(words)), <<" ">>)>>

\* C16's case: three equal words, where the splits at 1 and at 2 tie.
C16_Witness ==
    /\ Balanced
    /\ call.arg = <<"a", " ", "a", " ", "a">>
    /\ call.out = <<(<<"a">>), (<<"a", " ", "a">>)>>

\* C17: a trailing amen is detached and comes back as the last entry, after
\* the entries of the remaining tokens; with fewer than two remaining tokens the
\* result is their join, and the amen if one was detached; the result has one
\* to three entries; without a trailing amen nothing is detached (an amen
\* elsewhere stays inside the halves); and the line of one word and amen gives
\* that word and amen.
C17_AmenDetachedAndReappended ==
    /\ Balanced =>
          LET rest == Remaining(call.arg)
              out == call.out
          IN /\ Len(out) \in 1..3
             /\ EndsInAmen(call.arg) =>
                   /\ out[Len(out)] = AMEN
                   /\ join(SubSeq(out, 1, Len(out) - 1), <<" ">>) = join(rest, <<" ">>)
                   /\ Len(out) = IF Len(rest) < 2 THEN 2 ELSE 3
             /\ ~EndsInAmen(call.arg) =>
                   /\ join(out, <<" ">>) = join(rest, <<" ">>)
                   /\ Len(out) = IF Len(rest) < 2 THEN 1 ELSE 2
    /\ splitBalanced(<<"GI", "PPEU", "DA", " ", "AA", "MEN">>) = <<(<<"GI", "PPEU", "DA">>), AMEN>>

\* C17's case: a line with an amen in the middle and one at the end.
C17_Witness ==
    /\ Balanced
    /\ call.arg = <<"a", " ">> \o AMEN \o <<" ", "b", "b", " ">> \o AMEN
    /\ call.out = <<(<<"a", " ">> \o AMEN), (<<"b", "b">>), AMEN>>

----------------------------------------------------------------------------
(* The text-fit engine *)

Shrunk == call.fn = "autoShrinkFont" /\ call.done

\* The sizes from minFont to maxFont at which the content fits
FittingSizes(a) == {f \in a.minFont..a.maxFont : f \in a.fits}

Max(S) == CHOOSE x \in S : \A y \in S : x >= y

\* C18: for an element that overflows at maxFont, whatever the integer bounds,
\* the size left is the largest size from minFont to maxFont at which the
\* content fits, and minFont if there is none.
C18_LargestFittingSize ==
    (Shrunk /\ call.arg.maxFont \notin call.arg.fits) =>
        call.out = IF FittingSizes(call.arg) # {}
                   THEN Max(FittingSizes(call.arg))
                   ELSE call.arg.minFont

----------------------------------------------------------------------------
(* The renderers on payloads with missing properties *)

Rendered == call.fn = "render" /\ call.done

\* The text a surface shows for a property of the payload
Shown(sfc, key) ==
    CASE key = "headline" -> sfc.content.headline \o Flatten(Flatten(sfc.content.blocks))
      [] key = "caption" -> sfc.content.caption
      [] key = "caption_choir" -> sfc.content.choir

TextKeys == {"headline", "caption", "caption_choir"}

\* C19: every renderer, called with a payload object that lacks some of
\* headline, caption and caption_choir, returns, shows nothing for a property
\* that is absent, and shows the text "undefined" nowhere.
C19_MissingFieldsRenderEmpty ==
    Rendered =>
        \A key \in TextKeys :
            /\ key \notin call.arg.data.has => Shown(call.out, key) = <<>>
            /\ "undefined" \notin Range(Shown(call.out, key))

\* C19's case: the anthem renderer has run on a payload with none of the three
\* properties.
C19_Witness ==
    /\ Rendered
    /\ call.arg.fn = "renderAnthem"
    /\ call.arg.data.has = {}
    /\ call.out.className = "anthem-wrapper"
    /\ call.out.content.template = "anthem"

----------------------------------------------------------------------------
(* The error handler *)

\* C20: the error handler resets the in-progress flag and nothing else: no
\* reconnect timer, no new socket (the socket handle is kept and no other
\* socket changes), both heartbeat timers as they were. Only the close handler
\* adds a reconnect timer, one by one, so the close that follows an error in
\* the same task leaves one reconnect timer pending, not two.
C20_ErrorOnlyResetsFlag ==
    /\ [][(last'.op = "error")
            => /\ connecting' = FALSE
               /\ UNCHANGED <<reconnects, ws, pingTimer, pongTimeout, intervals, deadlines>>
               /\ Cardinality(LiveSockets') = Cardinality(LiveSockets)
               /\ \A s \in SocketSlots : sockets'[s] # sockets[s] => sockets'[s] = "FAILED"]_vars
    /\ [][(reconnects' > reconnects) => (last'.op = "close" /\ reconnects' = reconnects + 1)]_vars
    /\ [][(~Idle) => (last.op = "error" /\ last'.op = "close" /\ reconnects' = 1)]_vars

\* C20's case: the error handler has run for a socket that failed while it was
\* open with its heartbeat running, and the close handler has not run yet.
C20_Witness ==
    /\ last.op = "error"
    /\ ~Idle
    /\ pingTimer # 0
    /\ intervals[pingTimer]
    /\ reconnects = 0

----------------------------------------------------------------------------
(* Reconnect timers, heartbeat and the retry chain *)

\* C21: in every reachable state at most one reconnect timer is pending, and a
\* reconnect timer is scheduled only when none is pending.
C21_AtMostOneReconnectTimer ==
    /\ [](reconnects <= 1)
    /\ [][reconnects' > reconnects => reconnects = 0]_vars

\* A socket that received an acknowledgment has closed, and the timer of its
\* close handler is the one pending.
C21_Witness ==
    /\ last = [op |-> "close", note |-> ""]
    /\ reconnects = 1
    /\ PONG \in Range(received)
    /\ LiveSockets = {}

\* The current socket is OPEN
CurrentOpen == ws # 0 /\ sockets[ws] = "OPEN"

\* C22: a tick of the heartbeat sends a ping exactly when the current socket is
\* OPEN and then arms one deadline; a tick on a socket that is not OPEN sends
\* nothing and arms nothing; a deadline is armed by no step but a tick that
\* sends a ping, and no interval runs before its socket has opened or after its
\* close handler has run.
C22_PingOnlyWhenOpen ==
    /\ [][(\E i \in IntervalSlots : PingTick(i)) =>
            /\ (last'.note = "sent") <=> CurrentOpen
            /\ last'.note = "sent" =>
                 /\ Cardinality(Pending') = Cardinality(Pending) + 1
                 /\ pongTimeout' \in Pending' \ Pending
            /\ last'.note # "sent" => UNCHANGED <<deadlines, pongTimeout>>]_vars
    /\ [][Pending' \ Pending # {} =>
            /\ last' = [op |-> "ping", note |-> "sent"]
            /\ CurrentOpen]_vars
    /\ [](Active # {} => ws # 0 /\ sockets[ws] \in {"OPEN", "CLOSING", "FAILED"})

\* The interval has fired on a socket that is closing: nothing was sent.
C22_Witness ==
    /\ last = [op |-> "ping", note |-> "skipped"]
    /\ sockets[ws] = "CLOSING"
    /\ Pending = {}

\* C23: once main has made its one call, every state has exactly one of a
\* socket whose close event has not been delivered and one pending reconnect
\* timer.
C23_SocketOrTimer ==
    started =>
        \/ Cardinality(LiveSockets) = 1 /\ reconnects = 0
        \/ LiveSockets = {} /\ reconnects = 1

\* A reconnect timer has fired and its attempt is the live socket.
C23_Witness ==
    /\ last = [op |-> "reconnect", note |-> "new"]
    /\ LiveSockets = {ws}
    /\ reconnects = 0

----------------------------------------------------------------------------
(* The renderers and the text-fit engine *)

\* The calls of autoShrinkFont a renderer has made on the surface it returned
FitCallsOf(sfc) == sfc.content.fit

\* C24: of the renderers anthem, prayer and greet, greet alone calls
\* autoShrinkFont: a rendered anthem or prayer slide has no call of it, in both
\* variants.
C24_OnlyGreetFits ==
    Rendered =>
        /\ call.arg.fn \in {"renderAnthem", "renderPrayer"} => FitCallsOf(call.out) = <<>>
        /\ call.arg.fn = "renderGreet" => Len(FitCallsOf(call.out)) = 1

\* The blocks the lyrics renderer is to emit for a headline: one per segment of
\* its lines, each line of the segment expanded by splitBalanced
BlocksOf(headline) ==
    LET segments == segmentLyrics(split(headline, "\n"))
    IN [k \in 1..Len(segments) |-> Sublines(segments[k])]

\* C25: the lyrics renderer emits one block per segment of the headline's
\* lines, in segment order, each line expanded by splitBalanced, and calls
\* autoShrinkFont once, on the last block, when there is a segment, and not at
\* all when there is none.
C25_LyricsBlocksAndLastFit ==
    (Rendered /\ call.arg.fn = "renderLyrics") =>
        LET blocks == BlocksOf(OrEmpty(call.arg.data, "headline"))
            fit == FitCallsOf(call.out)
        IN /\ call.out.content.blocks = blocks
           /\ call.out.content.headline = <<>>
           /\ IF blocks = <<>> THEN fit = <<>>
              ELSE /\ Len(fit) = 1
                   /\ fit[1].el = ".lyrics-headline"
                   /\ fit[1].index = Len(blocks)

----------------------------------------------------------------------------
(* The surface after a sequence of dispatched messages *)

\* The renderers that have run on the page, in order
RenderedSlides == SelectSeq(invoked, LAMBDA fn : fn \in Renderers)

\* The renderer of the most recent slide, "" when none has been rendered
LastRendered ==
    IF RenderedSlides = <<>> THEN "" ELSE RenderedSlides[Len(RenderedSlides)]

\* C26: in the hall variant the cover background is shown exactly when the
\* most recent slide rendered is an intro slide.
C26_CoverOnlyForIntro ==
    variant = "hall" => (surface.coverBg = "block" <=> LastRendered = "renderIntro")

\* An intro slide was followed by a verse slide: the cover is hidden again.
C26_Witness ==
    /\ variant = "hall"
    /\ invoked = <<"renderIntro", "renderVerse">>
    /\ surface.coverBg = "none"

----------------------------------------------------------------------------
(* Termination and range of the text-fit engine *)

\* C27: for all bounds and layouts autoShrinkFont returns after at most
\* max(0, maxFont - minFont) decrements of 1, the size it leaves is neither
\* above maxFont nor below minFont, and it is minFont when the content
\* overflows at every size above it.
C27_FitTerminatesInRange ==
    Shrunk =>
        LET a == call.arg
            steps == ShrinkSteps(a.fits, a.maxFont, a.minFont)
        IN /\ steps <= Max({0, a.maxFont - a.minFont})
           /\ call.out = a.maxFont - steps
           /\ call.out <= a.maxFont
           /\ call.out >= a.minFont
           /\ a.fits \cap (a.minFont + 1 .. a.maxFont) = {} => call.out = a.minFont

----------------------------------------------------------------------------
(* The controls and the transport buttons of a video slide *)

\* The events the controls answer by showing themselves
ActivityOps == {"mouseenter", "mousemove", "click"}

\* C28: on a video slide at most one hide timer is pending; every mouse move,
\* mouse enter and click on a control button leaves the controls visible with
\* the timer it started as the only one pending; and visible controls are
\* hidden by no step but a mouse leave or the firing of a timer that no
\* activity has followed.
C28_ControlsFollowActivity ==
    /\ [](Cardinality(PendingHide) <= 1)
    /\ [][last'.op \in ActivityOps =>
            /\ player'.opacity = "1"
            /\ PendingHide' = {player'.hideTimer}
            /\ player'.timers[player'.hideTimer] = "fresh"]_vars
    /\ [][(player.opacity = "1" /\ player'.opacity = "0") =>
            \/ last'.op = "mouseleave"
            \/ last' = [op |-> "hide", note |-> "fresh"]]_vars

\* A click on the button act has been handled
Clicked(act) == last' = [op |-> "click", note |-> act]

\* C29: seek-back sets the position to max(0, t - 5), seek-forward sets it to
\* min(duration, t + 5), stop pauses and sets it to 0, and in every state the
\* position is between 0 and the duration of the media.
C29_PositionWithinBounds ==
    /\ [][Clicked("back") =>
            player'.currentTime = Max({0, player.currentTime - SeekStep})]_vars
    /\ [][Clicked("fwd") =>
            player'.currentTime = Min({player.duration, player.currentTime + SeekStep})]_vars
    /\ [][Clicked("stop") => (player'.paused /\ player'.currentTime = 0)]_vars
    /\ [](player.currentTime >= 0 /\ player.currentTime <= player.duration)

\* C29 as the code has it: seek-back sets the position to max(0, t - 5); stop
\* pauses and sets it to 0; seek-forward sets it to min(duration, t + 5) once
\* the metadata has loaded and to t + 5 before that (video.duration is NaN);
\* the position is never below 0, and from the moment the metadata has loaded
\* never above the duration.
C29_PositionWithinKnownDuration ==
    /\ [][Clicked("back") =>
            player'.currentTime = Max({0, player.currentTime - SeekStep})]_vars
    /\ [][Clicked("fwd") =>
            player'.currentTime = IF player.loaded
                                  THEN Min({player.duration, player.currentTime + SeekStep})
                                  ELSE player.currentTime + SeekStep]_vars
    /\ [][Clicked("stop") => (player'.paused /\ player'.currentTime = 0)]_vars
    /\ [](player.currentTime >= 0)
    /\ [](player.loaded => player.currentTime <= player.duration)

\* A seek forward has been clamped to the duration, after playback had moved
\* on from the start.
C29_Witness ==
    /\ last = [op |-> "click", note |-> "fwd"]
    /\ player.loaded
    /\ player.duration = MaxDuration
    /\ player.currentTime = player.duration
    /\ ~player.paused

----------------------------------------------------------------------------
(* The container's class and display *)

\* container.className as each renderer sets it
MarkerOf ==
    [renderLyrics |-> "lyrics", renderVerse |-> "verse", renderCorner |-> "corner",
     renderAnthem |-> "anthem-wrapper", renderPrayer |-> "prayer-wrapper",
     renderGreet |-> "greet", renderImage |-> "image", renderIntro |-> "intro",
     renderVideo |-> "video", renderBlank |-> ""]

\* C30: after any sequence of messages the container's class is empty and its
\* display is "none" exactly when the last slide rendered is blank (which an
\* unknown style renders too); after any other slide its class is the one
\* marker of that slide's renderer and it is displayed.
C30_ClassAndDisplayMatchLastSlide ==
    /\ (surface.className = "" /\ surface.display = "none") <=> LastRendered = "renderBlank"
    /\ LastRendered \notin {"", "renderBlank"} =>
         /\ surface.className = MarkerOf[LastRendered]
         /\ surface.className # ""
         /\ surface.display \in {"flex", "block"}

\* A verse slide was followed by a message of an unknown style.
C30_Witness ==
    /\ invoked = <<"renderVerse", "renderBlank">>
    /\ Len(dispatched) = 2
    /\ ~Registered(dispatched[2])
    /\ surface.className = ""
    /\ surface.display = "none"

----------------------------------------------------------------------------
(* The function the dispatcher invokes *)

\* The style of the parsed message names a property the renderer table
\* inherits from Object.prototype
NamesInherited(raw) ==
    /\ "style" \in JSONparse(raw).has
    /\ JSONparse(raw).style \in {"constructor", "__proto__"}

\* C31: every function the dispatcher has invoked is a renderer registered in
\* the renderer table or the blank renderer, and a message whose style names an
\* inherited property of the table invokes the blank renderer and throws
\* nothing.
C31_InvokesOnlyRegisteredOrBlank ==
    /\ [](\A k \in 1..Len(invoked) : invoked[k] \in Renderers \cup {"renderBlank"})
    /\ [][(Dispatches({"object"}) /\ NamesInherited(dispatched'[Len(dispatched')]))
            => /\ invoked' = Append(invoked, "renderBlank")
               /\ thrown' = thrown]_vars

----------------------------------------------------------------------------
(* splitBalanced keeps the text of its line *)

RECURSIVE CollapseRuns(_)
\* A text with every run of whitespace turned into one space
CollapseRuns(text) ==
    IF text = <<>> THEN <<>>
    ELSE IF Head(text) \notin Whitespace THEN <<Head(text)>> \o CollapseRuns(Tail(text))
    ELSE IF Len(text) >= 2 /\ text[2] \in Whitespace THEN CollapseRuns(Tail(text))
    ELSE <<" ">> \o CollapseRuns(Tail(text))

====
